---- MODULE Spec2Model ----
(***************************************************************************)
(* Model of src/main.py: the spreadsheet-to-map service.                   *)
(*                                                                         *)
(* Text is modelled as a sequence of one-character strings, so that        *)
(* str.lower(), str.replace() and str.zfill() are computed character by    *)
(* character.  Numbers are integers counted in hundredths (the cell value  *)
(* -23.55 is the integer -2355, the cell value 3550 is 355000), so that    *)
(* the range tests of the code are integer comparisons.                    *)
(***************************************************************************)
EXTENDS Integers, Sequences, FiniteSets, TLC

VARIABLES
    pc,              \* position of upload_file
    colunas,         \* df.columns of the uploaded sheet
    linhas,          \* the rows of the sheet, each aligned with colunas
    map_type,        \* request.form['map_type']
    ramo,            \* pipeline processar_excel dispatched to
    dados,           \* records returned by processar_excel
    tem_quantidade,  \* second component returned by processar_excel
    tipo_dados,      \* third component returned by processar_excel
    erro,            \* exception raised inside the handler, if any
    tipo_mapa,       \* local tipo_mapa of upload_file after validation
    aviso,           \* local aviso of upload_file
    construtor,      \* map builder called by criar_mapa_coordenadas
    camada,          \* points handed to the rendering layer by the builder
    resposta,        \* JSON response of upload_file
    arquivo_temp,    \* TRUE while the uploaded temporary file exists
    geojson,         \* boundary collection the builder obtained, if any
    mapa_salvo       \* TRUE once mapa.save has written the map file

vars == << pc, colunas, linhas, map_type, ramo, dados, tem_quantidade,
           tipo_dados, erro, tipo_mapa, aviso, construtor, camada, resposta,
           arquivo_temp, geojson, mapa_salvo >>

-----------------------------------------------------------------------------
(* Bounds of the model *)

MaxColunas == 3

MaxLinhas == 2

MaxLinhasPedido == 2

MaxDefeitos == 1

-----------------------------------------------------------------------------
(* Characters and strings *)

Maiusculas ==
    << "A","B","C","D","E","F","G","H","I","J","K","L","M","N","O","P","Q",
       "R","S","T","U","V","W","X","Y","Z","Ã","Á","É","Í","Ó","Ç","Â","Ô" >>

Minusculas ==
    << "a","b","c","d","e","f","g","h","i","j","k","l","m","n","o","p","q",
       "r","s","t","u","v","w","x","y","z","ã","á","é","í","ó","ç","â","ô" >>

Digitos == << "0","1","2","3","4","5","6","7","8","9" >>

Min(S) == CHOOSE x \in S : \A y \in S : x <= y

\* the lower-case form of every upper-case character
ParaMinuscula ==
    [c \in {Maiusculas[i] : i \in 1..Len(Maiusculas)} |->
        Minusculas[CHOOSE i \in 1..Len(Maiusculas) : Maiusculas[i] = c]]

LowerChar(c) == IF c \in DOMAIN ParaMinuscula THEN ParaMinuscula[c] ELSE c

\* str.lower()
Lower(s) == [i \in 1..Len(s) |-> LowerChar(s[i])]

\* the upper-case form of every lower-case character
ParaMaiuscula ==
    [c \in {Minusculas[i] : i \in 1..Len(Minusculas)} |->
        Maiusculas[CHOOSE i \in 1..Len(Minusculas) : Minusculas[i] = c]]

UpperChar(c) == IF c \in DOMAIN ParaMaiuscula THEN ParaMaiuscula[c] ELSE c

\* str.upper()
Upper(s) == [i \in 1..Len(s) |-> UpperChar(s[i])]

\* str.replace(ch, '')
Remover(s, ch) == SelectSeq(s, LAMBDA c : c # ch)

\* col.lower().replace('_', '').replace(' ', '')
Normalizar(s) == Remover(Remover(Lower(s), "_"), " ")

\* x in lista, for a Python list
Contem(lista, x) == \E i \in 1..Len(lista) : lista[i] = x

-----------------------------------------------------------------------------
(* Alias lists of the source *)

colunas_municipio ==
    << <<"c","o","d","i","g","o","i","b","g","e">>,
       <<"i","b","g","e">>,
       <<"c","o","d","i","g","o">>,
       <<"i","d","m","u","n","i","c","i","p","i","o">>,
       <<"c","o","d","i","b","g","e">> >>

colunas_estado ==
    << <<"e","s","t","a","d","o">>,
       <<"s","t","a","t","e","s">>,
       <<"u","f">>,
       <<"s","i","g","l","a">> >>

colunas_valor ==
    << <<"v","a","l","o","r">>,
       <<"q","u","a","n","t","i","d","a","d","e">>,
       <<"i","n","t","e","n","s","i","d","a","d","e">>,
       <<"p","e","s","o">>,
       <<"p","o","p","u","l","a","c","a","o">>,
       <<"p","o","p","u","l","a","t","i","o","n">> >>

colunas_opcionais_estados ==
    << <<"q","u","a","n","t","i","d","a","d","e">>,
       <<"i","n","t","e","n","s","i","d","a","d","e">>,
       <<"v","a","l","o","r">>,
       <<"p","e","s","o">>,
       <<"p","o","p","u","l","a","c","a","o">>,
       <<"p","o","p","u","l","a","t","i","o","n">> >>

colunas_opcionais ==
    << <<"q","u","a","n","t","i","d","a","d","e">>,
       <<"i","n","t","e","n","s","i","d","a","d","e">>,
       <<"v","a","l","o","r">>,
       <<"p","e","s","o">> >>

alt_latitude ==
    << <<"l","a","t">>,
       <<"y">>,
       <<"l","a","t","i","t","u","d","e">> >>

alt_longitude ==
    << <<"l","o","n">>,
       <<"l","n","g">>,
       <<"l","o","n","g">>,
       <<"x">>,
       <<"l","o","n","g","i","t","u","d","e">> >>

alt_descricao ==
    << <<"d","e","s","c","r","i","c","a","o">>,
       <<"d","e","s","c","r","i","ç","ã","o">>,
       <<"d","e","s","c","r","i","p","t","i","o","n">>,
       <<"n","o","m","e">>,
       <<"n","a","m","e">>,
       <<"t","i","t","u","l","o">>,
       <<"t","í","t","u","l","o">> >>

s_latitude == <<"l","a","t","i","t","u","d","e">>

s_longitude == <<"l","o","n","g","i","t","u","d","e">>

s_descricao == <<"d","e","s","c","r","i","c","a","o">>

s_quantidade == <<"q","u","a","n","t","i","d","a","d","e">>

s_estado == <<"e","s","t","a","d","o">>

s_codigo_ibge == <<"c","o","d","i","g","o","_","i","b","g","e">>

s_valor == <<"v","a","l","o","r">>

-----------------------------------------------------------------------------
(* Cells of the sheet *)

Nulo == [t |-> "null", n |-> 0, s |-> <<>>]

Num(n) == [t |-> "num", n |-> n, s |-> <<>>]

Str(s) == [t |-> "str", n |-> 0, s |-> s]

EhNulo(c) == c.t = "null"

EhNum(c) == c.t = "num"

EhStr(c) == c.t = "str"

-----------------------------------------------------------------------------
(* pandas helpers *)

\* dtype pandas infers for column j of the sheet as read by pd.read_excel
Dtype(lins, j) ==
    IF Len(lins) = 0 \/ \E r \in 1..Len(lins) : EhStr(lins[r][j])
    THEN "object"
    ELSE IF \A r \in 1..Len(lins) : EhNum(lins[r][j]) /\ lins[r][j].n % 100 = 0
    THEN "int64"
    ELSE "float64"

RECURSIVE DigitosDe(_)
\* decimal digits of a natural number
DigitosDe(n) ==
    IF n < 10 THEN << Digitos[n + 1] >>
    ELSE Append(DigitosDe(n \div 10), Digitos[(n % 10) + 1])

Abs(n) == IF n < 0 THEN -n ELSE n

Sinal(n) == IF n < 0 THEN << "-" >> ELSE << >>

\* str() of a Python int whose value is h hundredths (h a multiple of 100)
IntStr(h) == Sinal(h) \o DigitosDe(Abs(h) \div 100)

\* str() of a Python float whose value is h hundredths: repr keeps at least
\* one decimal and no trailing zero
FloatStr(h) ==
    LET f == Abs(h) % 100
        dec == IF f % 10 = 0 THEN << Digitos[(f \div 10) + 1] >>
               ELSE << Digitos[(f \div 10) + 1], Digitos[(f % 10) + 1] >>
    IN Sinal(h) \o DigitosDe(Abs(h) \div 100) \o << "." >> \o dec

\* Series.astype(str), element by element, for a column of the given dtype
astype_str(c, dtype) ==
    IF EhStr(c) THEN c.s
    ELSE IF dtype = "float64" THEN FloatStr(c.n)
    ELSE IF c.n % 100 = 0 THEN IntStr(c.n)
    ELSE FloatStr(c.n)

\* mutant: the code is filled on the right
zfill_a_direita(s, largura) ==
    IF Len(s) >= largura THEN s
    ELSE s \o [i \in 1..(largura - Len(s)) |-> "0"]

\* str.zfill(largura): left-fill with '0', after a leading sign if any
zfill(s, largura) ==
    LET zeros == [i \in 1..(largura - Len(s)) |-> "0"]
    IN IF Len(s) >= largura THEN s
       ELSE IF Len(s) > 0 /\ s[1] \in {"+", "-"} THEN << s[1] >> \o zeros \o Tail(s)
       ELSE zeros \o s

EhDigito(c) == \E i \in 1..Len(Digitos) : Digitos[i] = c

RECURSIVE ValorDigitos(_)
ValorDigitos(s) ==
    IF Len(s) = 0 THEN 0
    ELSE 10 * ValorDigitos(SubSeq(s, 1, Len(s) - 1))
         + (CHOOSE d \in 0..9 : Digitos[d + 1] = s[Len(s)])

\* pd.to_numeric(errors='coerce') of one cell: a number stays, a string of
\* decimal digits is parsed, any other text and a missing cell become NaN
to_numeric(c) ==
    IF EhNum(c) THEN c
    ELSE IF EhStr(c) /\ Len(c.s) > 0 /\ \A i \in 1..Len(c.s) : EhDigito(c.s[i])
    THEN Num(100 * ValorDigitos(c.s))
    ELSE Nulo

RECURSIVE LStrip(_)
LStrip(s) == IF Len(s) > 0 /\ s[1] = " " THEN LStrip(Tail(s)) ELSE s

RECURSIVE RStrip(_)
RStrip(s) ==
    IF Len(s) > 0 /\ s[Len(s)] = " " THEN RStrip(SubSeq(s, 1, Len(s) - 1))
    ELSE s

\* str.strip()
Strip(s) == RStrip(LStrip(s))

\* df.rename(columns=dict): dict maps positions of resolved headers to names
Renomear(cols, dict) ==
    [i \in 1..Len(cols) |-> IF i \in DOMAIN dict THEN dict[i] ELSE cols[i]]

\* after the rename, more than one column carries the name: df[nome] is then
\* a DataFrame and the Series operations of the pipelines raise
Duplicada(nomes, nome) ==
    Cardinality({i \in 1..Len(nomes) : nomes[i] = nome}) > 1

-----------------------------------------------------------------------------
(* Column resolution *)

\* col_exist.lower() of every header
em_minusculas(cols) == [i \in 1..Len(cols) |-> Lower(cols[i])]

\* for col_exist in df.columns: if col_exist.lower() == alvo: found; break
\* (minusc holds the lower-cased headers; the result is a position, or 0)
PrimeiraColuna(minusc, alvo) ==
    LET idx == {i \in 1..Len(minusc) : minusc[i] = alvo}
    IN IF idx = {} THEN 0 ELSE Min(idx)

RECURSIVE BuscarDesde(_, _, _)
BuscarDesde(minusc, lista, k) ==
    IF k > Len(lista) THEN 0
    ELSE LET i == PrimeiraColuna(minusc, lista[k])
         IN IF i # 0 THEN i ELSE BuscarDesde(minusc, lista, k + 1)

\* for alias in lista: for col_exist in df.columns: ...; position or 0
BuscarColuna(cols, lista) == BuscarDesde(em_minusculas(cols), lista, 1)

alternativas(col_obrig) ==
    IF col_obrig = s_latitude THEN alt_latitude
    ELSE IF col_obrig = s_longitude THEN alt_longitude
    ELSE alt_descricao

\* mutant: the common variations are not tried
col_encontrada_sem_alternativas(cols, col_obrig) ==
    PrimeiraColuna(em_minusculas(cols), col_obrig)

\* the required-column loop of processar_excel_coordenadas, for one column
col_encontrada(cols, col_obrig) ==
    LET i == PrimeiraColuna(em_minusculas(cols), col_obrig)
    IN IF i # 0 THEN i ELSE BuscarColuna(cols, alternativas(col_obrig))

\* the optional quantity column of processar_excel_coordenadas
col_quantidade(cols) == BuscarColuna(cols, colunas_opcionais)

\* the code column of processar_excel_municipios: headers in column order
col_codigo(cols) ==
    LET idx == {i \in 1..Len(cols) :
                   Contem(colunas_municipio, Normalizar(cols[i]))}
    IN IF idx = {} THEN 0 ELSE Min(idx)

\* the value column of processar_excel_municipios: headers in column order
col_valor(cols) ==
    LET idx == {i \in 1..Len(cols) : Contem(colunas_valor, Lower(cols[i]))}
    IN IF idx = {} THEN 0 ELSE Min(idx)

\* the state column of processar_excel_estados
col_estado(cols) == BuscarColuna(cols, colunas_estado)

\* the quantity column of processar_excel_estados
col_quantidade_estados(cols) == BuscarColuna(cols, colunas_opcionais_estados)

-----------------------------------------------------------------------------
(* Results of the pipelines *)

SemErro == [motivo |-> "nenhum", coluna |-> << >>, disponiveis |-> << >>]

\* ValueError naming the logical column that was not found
ErroColuna(coluna, disponiveis) ==
    [motivo |-> "coluna", coluna |-> coluna, disponiveis |-> disponiveis]

\* ValueError raised when df_processado.empty
ErroVazio == [motivo |-> "vazio", coluna |-> << >>, disponiveis |-> << >>]

\* TypeError or AttributeError raised by pandas on the column
ErroPandas(coluna) ==
    [motivo |-> "pandas", coluna |-> coluna, disponiveis |-> << >>]

\* mutant: the emptiness test never fires
empty_nunca(df) == FALSE

\* df_processado.empty
empty(df) == Len(df) = 0

Falha(e) ==
    [ok |-> FALSE, dados |-> << >>, tem_quantidade |-> FALSE,
     tipo_dados |-> "", erro |-> e]

Sucesso(d, tq, td) ==
    [ok |-> TRUE, dados |-> d, tem_quantidade |-> tq, tipo_dados |-> td,
     erro |-> SemErro]

-----------------------------------------------------------------------------
(* processar_excel_coordenadas *)

\* Series.between(lo, hi), bounds inclusive, on a numeric cell
between(c, lo, hi) == lo <= c.n /\ c.n <= hi

\* dropna(subset=['latitude', 'longitude', 'descricao'])
dropna_coordenadas(lins, iLat, iLon, iDesc) ==
    SelectSeq(lins, LAMBDA r :
        ~EhNulo(r[iLat]) /\ ~EhNulo(r[iLon]) /\ ~EhNulo(r[iDesc]))

\* mutant: the longitude limits applied to the latitude as well
validar_coordenadas_limite_trocado(lins, iLat, iLon) ==
    SelectSeq(lins, LAMBDA r :
        between(r[iLat], -18000, 18000) /\ between(r[iLon], -18000, 18000))

\* the coordinate validation: latitude in [-90, 90], longitude in [-180, 180]
validar_coordenadas(lins, iLat, iLon) ==
    SelectSeq(lins, LAMBDA r :
        between(r[iLat], -9000, 9000) /\ between(r[iLon], -18000, 18000))

\* to_numeric, dropna(subset=['quantidade']) and quantidade > 0
filtrar_quantidade(lins, iQ) ==
    SelectSeq(lins, LAMBDA r :
        EhNum(to_numeric(r[iQ])) /\ to_numeric(r[iQ]).n > 0)

\* mutant: the quantity column is left out of the records
registro_coordenadas_sem_quantidade(r, iLat, iLon, iDesc, iQ) ==
    [latitude |-> r[iLat].n, longitude |-> r[iLon].n, descricao |-> r[iDesc]]

\* one record of df_processado.to_dict('records')
registro_coordenadas(r, iLat, iLon, iDesc, iQ) ==
    IF iQ # 0
    THEN [latitude |-> r[iLat].n, longitude |-> r[iLon].n,
          descricao |-> r[iDesc], quantidade |-> to_numeric(r[iQ]).n]
    ELSE [latitude |-> r[iLat].n, longitude |-> r[iLon].n,
          descricao |-> r[iDesc]]

\* The sheets of the model hold at most one header that lower-cases to
\* 'descricao', so the description column is never duplicated by the rename.
processar_excel_coordenadas(cols, lins) ==
    LET iLat == col_encontrada(cols, s_latitude)
        iLon == col_encontrada(cols, s_longitude)
        iDesc == col_encontrada(cols, s_descricao)
        iQ == col_quantidade(cols)
        rename_dict ==
            [i \in {iLat, iLon, iDesc, iQ} \ {0} |->
                IF i = iLat THEN s_latitude
                ELSE IF i = iLon THEN s_longitude
                ELSE IF i = iDesc THEN s_descricao
                ELSE s_quantidade]
        nomes == Renomear(cols, rename_dict)
        sem_nulos == dropna_coordenadas(lins, iLat, iLon, iDesc)
        validas == validar_coordenadas(sem_nulos, iLat, iLon)
        finais == IF iQ # 0 THEN filtrar_quantidade(validas, iQ) ELSE validas
    IN IF iLat = 0 THEN Falha(ErroColuna(s_latitude, cols))
       ELSE IF iLon = 0 THEN Falha(ErroColuna(s_longitude, cols))
       ELSE IF iDesc = 0 THEN Falha(ErroColuna(s_descricao, cols))
       ELSE IF Duplicada(nomes, s_latitude)
               \/ \E k \in 1..Len(sem_nulos) : EhStr(sem_nulos[k][iLat])
       THEN Falha(ErroPandas(s_latitude))
       ELSE IF Duplicada(nomes, s_longitude)
               \/ \E k \in 1..Len(sem_nulos) : EhStr(sem_nulos[k][iLon])
       THEN Falha(ErroPandas(s_longitude))
       ELSE IF iQ # 0 /\ Duplicada(nomes, s_quantidade)
       THEN Falha(ErroPandas(s_quantidade))
       ELSE IF empty(finais) THEN Falha(ErroVazio)
       ELSE Sucesso([k \in 1..Len(finais) |->
                        registro_coordenadas(finais[k], iLat, iLon, iDesc, iQ)],
                    iQ # 0, "coordenadas")

-----------------------------------------------------------------------------
(* processar_excel_estados *)

\* df_processado.dropna() on the two selected columns
dropna_par(lins, i, j) ==
    SelectSeq(lins, LAMBDA r : ~EhNulo(r[i]) /\ ~EhNulo(r[j]))

\* mutant: zero is rejected as in the coordinate pipeline
filtrar_positivo(lins, j) ==
    SelectSeq(lins, LAMBDA r :
        EhNum(to_numeric(r[j])) /\ to_numeric(r[j]).n > 0)

\* to_numeric, dropna(subset=[coluna]) and coluna >= 0
filtrar_nao_negativo(lins, j) ==
    SelectSeq(lins, LAMBDA r :
        EhNum(to_numeric(r[j])) /\ to_numeric(r[j]).n >= 0)

\* mutant: the name is lower-cased and not trimmed
estado_normalizado_sem_strip(c) == IF EhStr(c) THEN Str(Lower(c.s)) ELSE Nulo

\* Series.str.lower().str.strip(), element by element: a non-text element of
\* an object column yields NaN
estado_normalizado(c) == IF EhStr(c) THEN Str(Strip(Lower(c.s))) ELSE Nulo

\* the .str accessor refuses a column that holds no text: a numeric column,
\* or an object column whose remaining values are all numbers
str_recusado(lins, finais, j) ==
    IF Len(finais) = 0 THEN Dtype(lins, j) # "object"
    ELSE \A k \in 1..Len(finais) : ~EhStr(finais[k][j])

registro_estados(r, iE, iQ) ==
    [estado |-> r[iE], quantidade |-> to_numeric(r[iQ]).n,
     estado_normalizado |-> estado_normalizado(r[iE])]

processar_excel_estados(cols, lins) ==
    LET iE == col_estado(cols)
        iQ == col_quantidade_estados(cols)
        rename_dict ==
            [i \in {iE, iQ} \ {0} |-> IF i = iE THEN s_estado ELSE s_quantidade]
        nomes == Renomear(cols, rename_dict)
        sem_nulos == dropna_par(lins, iE, iQ)
        finais == filtrar_nao_negativo(sem_nulos, iQ)
    IN IF iE = 0 THEN Falha(ErroColuna(s_estado, << >>))
       ELSE IF iQ = 0 THEN Falha(ErroColuna(s_quantidade, << >>))
       ELSE IF Duplicada(nomes, s_quantidade)
       THEN Falha(ErroPandas(s_quantidade))
       ELSE IF Duplicada(nomes, s_estado) \/ str_recusado(lins, finais, iE)
       THEN Falha(ErroPandas(s_estado))
       ELSE IF empty(finais) THEN Falha(ErroVazio)
       ELSE Sucesso([k \in 1..Len(finais) |->
                        registro_estados(finais[k], iE, iQ)],
                    TRUE, "coroplético")

-----------------------------------------------------------------------------
(* processar_excel_municipios *)

\* astype(str).str.zfill(7) on the code column
padronizar_codigo(c, dtype) == zfill(astype_str(c, dtype), 7)

registro_municipios(r, iC, iV, dtype) ==
    [codigo_ibge |-> padronizar_codigo(r[iC], dtype),
     valor |-> to_numeric(r[iV]).n]

processar_excel_municipios(cols, lins) ==
    LET iC == col_codigo(cols)
        iV == col_valor(cols)
        rename_dict ==
            [i \in {iC, iV} \ {0} |-> IF i = iC THEN s_codigo_ibge ELSE s_valor]
        nomes == Renomear(cols, rename_dict)
        sem_nulos == dropna_par(lins, iC, iV)
        finais == filtrar_nao_negativo(sem_nulos, iV)
    IN IF iC = 0 THEN Falha(ErroColuna(s_codigo_ibge, << >>))
       ELSE IF iV = 0 THEN Falha(ErroColuna(s_valor, << >>))
       ELSE IF Duplicada(nomes, s_codigo_ibge)
       THEN Falha(ErroPandas(s_codigo_ibge))
       ELSE IF Duplicada(nomes, s_valor) THEN Falha(ErroPandas(s_valor))
       ELSE IF empty(finais) THEN Falha(ErroVazio)
       ELSE Sucesso([k \in 1..Len(finais) |->
                        registro_municipios(finais[k], iC, iV, Dtype(lins, iC))],
                    TRUE, "municipios")

-----------------------------------------------------------------------------
(* processar_excel *)

colunas_normalizadas(cols) == [i \in 1..Len(cols) |-> Normalizar(cols[i])]

\* any(alias in colunas_normalizadas for alias in lista)
tem_coluna(cols, lista) ==
    LET norm == colunas_normalizadas(cols)
    IN \E k \in 1..Len(lista) : Contem(norm, lista[k])

tem_coluna_municipio(cols) == tem_coluna(cols, colunas_municipio)

tem_coluna_estado(cols) == tem_coluna(cols, colunas_estado)

\* mutant: the state test placed before the municipality test
classificar_estado_primeiro(cols) ==
    IF tem_coluna_estado(cols) THEN "coroplético"
    ELSE IF tem_coluna_municipio(cols) THEN "municipios"
    ELSE "coordenadas"

\* the branch processar_excel takes
classificar(cols) ==
    IF tem_coluna_municipio(cols) THEN "municipios"
    ELSE IF tem_coluna_estado(cols) THEN "coroplético"
    ELSE "coordenadas"

processar_excel(cols, lins) ==
    LET c == classificar(cols)
    IN IF c = "municipios" THEN processar_excel_municipios(cols, lins)
       ELSE IF c = "coroplético" THEN processar_excel_estados(cols, lins)
       ELSE processar_excel_coordenadas(cols, lins)

-----------------------------------------------------------------------------
(* upload_file: validation of the requested map type *)

SemAviso == "nenhum"

\* mutant: the branch for 'municipios' left out
validar_tipo_mapa_sem_municipios(tipo, tq, td) ==
    IF tipo \in {"calor", "circulos"} /\ ~tq
    THEN [tipo_mapa |-> "tradicional", aviso |-> "quantidade"]
    ELSE IF tipo = "coropletico" /\ td \notin {"coroplético", "municipios"}
    THEN [tipo_mapa |-> "tradicional", aviso |-> "estados_municipios"]
    ELSE [tipo_mapa |-> tipo, aviso |-> SemAviso]

\* mutant: heat and circles are kept without a quantity column
validar_tipo_mapa_sem_regra_quantidade(tipo, tq, td) ==
    IF tipo = "coropletico" /\ td \notin {"coroplético", "municipios"}
    THEN [tipo_mapa |-> "tradicional", aviso |-> "estados_municipios"]
    ELSE IF tipo = "municipios" /\ td # "municipios"
    THEN [tipo_mapa |-> "tradicional", aviso |-> "municipios"]
    ELSE [tipo_mapa |-> tipo, aviso |-> SemAviso]

\* the if/elif chain that follows processar_excel in upload_file
validar_tipo_mapa(tipo, tq, td) ==
    IF tipo \in {"calor", "circulos"} /\ ~tq
    THEN [tipo_mapa |-> "tradicional", aviso |-> "quantidade"]
    ELSE IF tipo = "coropletico" /\ td \notin {"coroplético", "municipios"}
    THEN [tipo_mapa |-> "tradicional", aviso |-> "estados_municipios"]
    ELSE IF tipo = "municipios" /\ td # "municipios"
    THEN [tipo_mapa |-> "tradicional", aviso |-> "municipios"]
    ELSE [tipo_mapa |-> tipo, aviso |-> SemAviso]

-----------------------------------------------------------------------------
(* criar_mapa_coordenadas and the builders *)

\* the builder criar_mapa_coordenadas calls
escolher_construtor(tipo, tq, td) ==
    IF td = "coroplético" THEN "criar_mapa_coropletico"
    ELSE IF td = "municipios" THEN "criar_mapa_coropletico_municipios"
    ELSE IF tipo = "tradicional" THEN "criar_mapa_tradicional"
    ELSE IF tipo = "calor" /\ tq THEN "criar_mapa_calor"
    ELSE IF tipo = "circulos" /\ tq THEN "criar_mapa_circulos"
    ELSE "criar_mapa_tradicional"

\* mutant: the default weight is used for every point
quantidade_sempre_1(ponto) == 100

\* ponto.get('quantidade', 1)
quantidade_ou_1(ponto) ==
    IF "quantidade" \in DOMAIN ponto THEN ponto.quantidade ELSE 100

\* heat_data of criar_mapa_calor: [latitude, longitude, quantidade]
heat_data(d) ==
    [k \in 1..Len(d) |-> << d[k].latitude, d[k].longitude, quantidade_ou_1(d[k]) >>]

\* locations of the markers of criar_mapa_tradicional
marcadores(d) == [k \in 1..Len(d) |-> << d[k].latitude, d[k].longitude >>]

Max(S) == CHOOSE x \in S : \A y \in S : x >= y

\* quantidades of criar_mapa_circulos
quantidades(d) == {quantidade_ou_1(d[k]) : k \in 1..Len(d)}

\* mutant: the case of equal quantities is not set apart
normalizar_raio_sem_caso_igual(q, min_quantidade, max_quantidade) ==
    [num |-> 10 * (max_quantidade - min_quantidade) + 90 * (q - min_quantidade),
     den |-> max_quantidade - min_quantidade]

\* normalizar_raio of criar_mapa_circulos; the radius is the exact fraction
\* num/den of 10 + 90 * (q - min) / (max - min)
normalizar_raio(q, min_quantidade, max_quantidade) ==
    IF max_quantidade = min_quantidade THEN [num |-> 30, den |-> 1]
    ELSE [num |-> 10 * (max_quantidade - min_quantidade)
                  + 90 * (q - min_quantidade),
          den |-> max_quantidade - min_quantidade]

\* mutant: the thresholds of green and orange are exchanged
cor_por_quantidade_limites_trocados(q, min_quantidade, max_quantidade) ==
    IF max_quantidade = min_quantidade THEN "blue"
    ELSE IF 100 * (q - min_quantidade) < 66 * (max_quantidade - min_quantidade)
    THEN "green"
    ELSE IF 100 * (q - min_quantidade) < 33 * (max_quantidade - min_quantidade)
    THEN "orange"
    ELSE "red"

\* cor_por_quantidade of criar_mapa_circulos; normalized < 0.33 is decided on
\* the exact quotient, which the float quotient agrees with for whole-number
\* quantities
cor_por_quantidade(q, min_quantidade, max_quantidade) ==
    IF max_quantidade = min_quantidade THEN "blue"
    ELSE IF 100 * (q - min_quantidade) < 33 * (max_quantidade - min_quantidade)
    THEN "green"
    ELSE IF 100 * (q - min_quantidade) < 66 * (max_quantidade - min_quantidade)
    THEN "orange"
    ELSE "red"

\* the CircleMarker criar_mapa_circulos adds for every record
circulos(d) ==
    LET min_quantidade == Min(quantidades(d))
        max_quantidade == Max(quantidades(d))
    IN [k \in 1..Len(d) |->
           LET quantidade == quantidade_ou_1(d[k])
           IN [latitude |-> d[k].latitude,
               longitude |-> d[k].longitude,
               quantidade |-> quantidade,
               raio |-> normalizar_raio(quantidade, min_quantidade,
                                        max_quantidade),
               cor |-> cor_por_quantidade(quantidade, min_quantidade,
                                          max_quantidade)]]

\* what a point builder hands to the rendering layer
camada_de(nome, d) ==
    IF nome = "criar_mapa_calor" THEN heat_data(d)
    ELSE IF nome = "criar_mapa_tradicional" THEN marcadores(d)
    ELSE IF nome = "criar_mapa_circulos" THEN circulos(d)
    ELSE << >>

ErroGeoJSON == [motivo |-> "geojson", coluna |-> << >>, disponiveis |-> << >>]

\* the dictionary ESTADOS_BRASIL, as its (key, value) pairs
ESTADOS_BRASIL ==
    << << <<"a","c","r","e">>, <<"A","C">> >>,
       << <<"a","l","a","g","o","a","s">>, <<"A","L">> >>,
       << <<"a","m","a","p","á">>, <<"A","P">> >>,
       << <<"a","m","a","p","a">>, <<"A","P">> >>,
       << <<"a","m","a","z","o","n","a","s">>, <<"A","M">> >>,
       << <<"b","a","h","i","a">>, <<"B","A">> >>,
       << <<"c","e","a","r","á">>, <<"C","E">> >>,
       << <<"c","e","a","r","a">>, <<"C","E">> >>,
       << <<"d","i","s","t","r","i","t","o"," ","f","e","d","e","r","a","l">>, <<"D","F">> >>,
       << <<"e","s","p","í","r","i","t","o"," ","s","a","n","t","o">>, <<"E","S">> >>,
       << <<"e","s","p","i","r","i","t","o"," ","s","a","n","t","o">>, <<"E","S">> >>,
       << <<"g","o","i","á","s">>, <<"G","O">> >>,
       << <<"g","o","i","a","s">>, <<"G","O">> >>,
       << <<"m","a","r","a","n","h","ã","o">>, <<"M","A">> >>,
       << <<"m","a","r","a","n","h","a","o">>, <<"M","A">> >>,
       << <<"m","a","t","o"," ","g","r","o","s","s","o">>, <<"M","T">> >>,
       << <<"m","a","t","o"," ","g","r","o","s","s","o"," ","d","o"," ","s","u","l">>, <<"M","S">> >>,
       << <<"m","i","n","a","s"," ","g","e","r","a","i","s">>, <<"M","G">> >>,
       << <<"p","a","r","á">>, <<"P","A">> >>,
       << <<"p","a","r","a">>, <<"P","A">> >>,
       << <<"p","a","r","a","í","b","a">>, <<"P","B">> >>,
       << <<"p","a","r","a","i","b","a">>, <<"P","B">> >>,
       << <<"p","a","r","a","n","á">>, <<"P","R">> >>,
       << <<"p","a","r","a","n","a">>, <<"P","R">> >>,
       << <<"p","e","r","n","a","m","b","u","c","o">>, <<"P","E">> >>,
       << <<"p","i","a","u","í">>, <<"P","I">> >>,
       << <<"p","i","a","u","i">>, <<"P","I">> >>,
       << <<"r","i","o"," ","d","e"," ","j","a","n","e","i","r","o">>, <<"R","J">> >>,
       << <<"r","i","o"," ","g","r","a","n","d","e"," ","d","o"," ","n","o","r","t","e">>, <<"R","N">> >>,
       << <<"r","i","o"," ","g","r","a","n","d","e"," ","d","o"," ","s","u","l">>, <<"R","S">> >>,
       << <<"r","o","n","d","ô","n","i","a">>, <<"R","O">> >>,
       << <<"r","o","n","d","o","n","i","a">>, <<"R","O">> >>,
       << <<"r","o","r","a","i","m","a">>, <<"R","R">> >>,
       << <<"s","a","n","t","a"," ","c","a","t","a","r","i","n","a">>, <<"S","C">> >>,
       << <<"s","ã","o"," ","p","a","u","l","o">>, <<"S","P">> >>,
       << <<"s","a","o"," ","p","a","u","l","o">>, <<"S","P">> >>,
       << <<"s","e","r","g","i","p","e">>, <<"S","E">> >>,
       << <<"t","o","c","a","n","t","i","n","s">>, <<"T","O">> >> >>

\* ESTADOS_BRASIL.get(chave, padrao)
ESTADOS_BRASIL_get(chave, padrao) ==
    IF \E i \in 1..Len(ESTADOS_BRASIL) : ESTADOS_BRASIL[i][1] = chave
    THEN ESTADOS_BRASIL[CHOOSE i \in 1..Len(ESTADOS_BRASIL) :
                            ESTADOS_BRASIL[i][1] = chave][2]
    ELSE padrao

\* sigla = ESTADOS_BRASIL.get(estado_norm, estado_norm.upper()) of
\* criar_mapa_coropletico, for a text estado_norm
sigla(estado_norm) == ESTADOS_BRASIL_get(estado_norm, Upper(estado_norm))

RECURSIVE dados_dict(_)
\* dados_dict of criar_mapa_coropletico: sigla -> quantidade, a later record
\* replacing an earlier one of the same sigla
dados_dict(d) ==
    IF Len(d) = 0 THEN << >>
    ELSE LET antes == dados_dict(SubSeq(d, 1, Len(d) - 1))
             ultimo == d[Len(d)]
             chave == sigla(ultimo.estado_normalizado.s)
         IN [k \in DOMAIN antes \cup {chave} |->
                IF k = chave THEN ultimo.quantidade ELSE antes[k]]

\* estado_norm.upper() of criar_mapa_coropletico is evaluated for every record
\* and raises AttributeError on a NaN estado_normalizado
ErroAtributo == [motivo |-> "atributo", coluna |-> << >>, disponiveis |-> << >>]

sigla_recusada(d) == \E k \in 1..Len(d) : ~EhStr(d[k].estado_normalizado)

-----------------------------------------------------------------------------
(* The boundary source and the choropleth builders *)

s_sao_paulo == <<"S","ã","o"," ","P","a","u","l","o">>

s_SP == <<"S","P">>

s_RJ == <<"R","J">>

s_GO == <<"G","O">>

s_AC == <<"A","C">>

s_rio_de_janeiro == <<"R","i","o"," ","d","e"," ","J","a","n","e","i","r","o">>

s_goias == <<"G","o","i","á","s">>

s_acre == <<"A","c","r","e">>

s_sem_dados == <<"S","e","m"," ","d","a","d","o","s">>

\* the collection criar_geojson_fallback returns: the properties of its two
\* features
criar_geojson_fallback ==
    << [name |-> s_sao_paulo, sigla |-> s_SP],
       [name |-> s_rio_de_janeiro, sigla |-> s_RJ] >>

\* collections the boundary source may answer with; a feature may lack the
\* name or the sigla property
ColecoesRemotas ==
    { << [name |-> s_sao_paulo, sigla |-> s_SP],
         [name |-> s_goias, sigla |-> s_GO],
         [sigla |-> s_AC],
         [name |-> s_acre] >>,
      << [name |-> s_rio_de_janeiro, sigla |-> s_RJ] >> }

\* outcomes of requests.get on the boundary source: status 200 with a
\* collection, another status, or an exception (status 0)
RespostasGeoJSON ==
    {[status |-> 200, json |-> c] : c \in ColecoesRemotas}
    \cup {[status |-> 404, json |-> << >>], [status |-> 0, json |-> << >>]}

SemGeoJSON == [pedido |-> FALSE, status |-> 0, features |-> << >>]

\* obter_geojson_estados: the remote collection, or the fallback collection
\* on any other status and on an exception
obter_geojson_estados(resp) ==
    IF resp.status = 200
    THEN [pedido |-> TRUE, status |-> resp.status, features |-> resp.json]
    ELSE [pedido |-> TRUE, status |-> resp.status,
          features |-> criar_geojson_fallback]

\* obter_geojson_municipios: the remote collection; it raises otherwise
obter_geojson_municipios(resp) ==
    [pedido |-> TRUE, status |-> resp.status, features |-> resp.json]

\* feature['properties'].get(chave, padrao)
properties_get(feature, chave, padrao) ==
    IF chave \in DOMAIN feature THEN feature[chave] ELSE padrao

\* mutant: a feature without a row of data gets no label
tooltips_so_com_dados(features, dd) ==
    SelectSeq([k \in 1..Len(features) |->
                  LET sg == properties_get(features[k], "sigla", << >>)
                  IN [nome |-> properties_get(features[k], "name", sg),
                      sigla |-> sg,
                      valor |-> IF sg \in DOMAIN dd THEN Num(dd[sg])
                                ELSE Str(s_sem_dados)]],
              LAMBDA t : t.valor # Str(s_sem_dados))

\* the tooltips of criar_mapa_coropletico, one for every feature of the
\* collection: the parts of f"{nome} ({sigla}): {valor}"
tooltips(features, dd) ==
    [k \in 1..Len(features) |->
        LET sg == properties_get(features[k], "sigla", << >>)
        IN [nome |-> properties_get(features[k], "name", sg),
            sigla |-> sg,
            valor |-> IF sg \in DOMAIN dd THEN Num(dd[sg])
                      ELSE Str(s_sem_dados)]]

criar_mapa_coropletico(d, resp) ==
    LET g == obter_geojson_estados(resp)
    IN IF sigla_recusada(d)
       THEN [ok |-> FALSE, erro |-> ErroAtributo, camada |-> << >>,
             geojson |-> g]
       ELSE [ok |-> TRUE, erro |-> SemErro,
             camada |-> tooltips(g.features, dados_dict(d)), geojson |-> g]

criar_mapa_coropletico_municipios(d, resp) ==
    IF resp.status # 200
    THEN [ok |-> FALSE, erro |-> ErroGeoJSON, camada |-> << >>,
          geojson |-> [pedido |-> TRUE, status |-> resp.status,
                       features |-> << >>]]
    ELSE [ok |-> TRUE, erro |-> SemErro, camada |-> << >>,
          geojson |-> obter_geojson_municipios(resp)]

\* the call of the builder criar_mapa_coordenadas chose
construir(nome, d, resp) ==
    IF nome = "criar_mapa_coropletico" THEN criar_mapa_coropletico(d, resp)
    ELSE IF nome = "criar_mapa_coropletico_municipios"
    THEN criar_mapa_coropletico_municipios(d, resp)
    ELSE [ok |-> TRUE, erro |-> SemErro, camada |-> camada_de(nome, d),
          geojson |-> SemGeoJSON]

-----------------------------------------------------------------------------
(* Responses of upload_file *)

SemResposta ==
    [status |-> 0, success |-> FALSE, map_type |-> "", data_type |-> "",
     has_quantity |-> FALSE, points_count |-> 0, warning |-> SemAviso,
     error |-> SemErro]

resposta_sucesso(tipo, td, tq, n, av) ==
    [status |-> 200, success |-> TRUE, map_type |-> tipo, data_type |-> td,
     has_quantity |-> tq, points_count |-> n, warning |-> av,
     error |-> SemErro]

resposta_erro(e) ==
    [status |-> 500, success |-> FALSE, map_type |-> "", data_type |-> "",
     has_quantity |-> FALSE, points_count |-> 0, warning |-> SemAviso,
     error |-> e]

-----------------------------------------------------------------------------
(* upload_file: the temporary file *)

\* exception raised by mapa.save
ErroSalvar == [motivo |-> "salvar", coluna |-> << >>, disponiveis |-> << >>]

\* os.remove(filepath): whether the file exists afterwards
os_remove(existe) == FALSE

\* mutant: the except clause leaves the file where it is
limpar_em_erro_nunca(existe) == existe

\* if 'filepath' in locals() and os.path.exists(filepath): os.remove(filepath)
limpar_em_erro(existe) == IF existe THEN os_remove(existe) ELSE existe

-----------------------------------------------------------------------------
(* Actions: the steps of upload_file *)

\* dados, tem_quantidade, tipo_dados = processar_excel(filepath)
ProcessarExcel ==
    /\ pc = "salvo"
    /\ LET r == processar_excel(colunas, linhas)
       IN /\ ramo' = classificar(colunas)
          /\ dados' = r.dados
          /\ tem_quantidade' = r.tem_quantidade
          /\ tipo_dados' = r.tipo_dados
          /\ erro' = r.erro
          /\ pc' = IF r.ok THEN "processado" ELSE "excecao"
    /\ UNCHANGED << colunas, linhas, map_type, tipo_mapa, aviso, construtor,
                    camada, resposta, arquivo_temp, geojson, mapa_salvo >>

\* the validation of tipo_mapa against the data
ValidarTipoMapa ==
    /\ pc = "processado"
    /\ LET v == validar_tipo_mapa(map_type, tem_quantidade, tipo_dados)
       IN /\ tipo_mapa' = v.tipo_mapa
          /\ aviso' = v.aviso
    /\ pc' = "validado"
    /\ UNCHANGED << colunas, linhas, map_type, ramo, dados, tem_quantidade,
                    tipo_dados, erro, construtor, camada, resposta,
                    arquivo_temp, geojson, mapa_salvo >>

\* mapa = criar_mapa_coordenadas(...), with the answer the boundary source
\* gives to the builder that asks for it
CriarMapa ==
    /\ pc = "validado"
    /\ construtor' = escolher_construtor(tipo_mapa, tem_quantidade, tipo_dados)
    /\ \E resp \in RespostasGeoJSON :
          LET r == construir(construtor', dados, resp)
          IN /\ geojson' = r.geojson
             /\ erro' = IF r.ok THEN erro ELSE r.erro
             /\ camada' = r.camada
             /\ pc' = IF r.ok THEN "criado" ELSE "excecao"
    /\ UNCHANGED << colunas, linhas, map_type, ramo, dados, tem_quantidade,
                    tipo_dados, tipo_mapa, aviso, resposta, arquivo_temp,
                    mapa_salvo >>

\* mapa.save(map_filepath): the map file is written, or the write raises
SalvarMapa ==
    /\ pc = "criado"
    /\ \E gravado \in BOOLEAN :
          /\ mapa_salvo' = gravado
          /\ erro' = IF gravado THEN erro ELSE ErroSalvar
          /\ pc' = IF gravado THEN "mapa_salvo" ELSE "excecao"
    /\ UNCHANGED << colunas, linhas, map_type, ramo, dados, tem_quantidade,
                    tipo_dados, tipo_mapa, aviso, construtor, camada,
                    resposta, arquivo_temp, geojson >>

\* os.remove(filepath) and the success response
Responder ==
    /\ pc = "mapa_salvo"
    /\ arquivo_temp' = os_remove(arquivo_temp)
    /\ resposta' = resposta_sucesso(tipo_mapa, tipo_dados, tem_quantidade,
                                    Len(dados), aviso)
    /\ pc' = "fim"
    /\ UNCHANGED << colunas, linhas, map_type, ramo, dados, tem_quantidade,
                    tipo_dados, erro, tipo_mapa, aviso, construtor, camada,
                    geojson, mapa_salvo >>

\* the except clause of upload_file
Excecao ==
    /\ pc = "excecao"
    /\ arquivo_temp' = limpar_em_erro(arquivo_temp)
    /\ resposta' = resposta_erro(erro)
    /\ pc' = "fim"
    /\ UNCHANGED << colunas, linhas, map_type, ramo, dados, tem_quantidade,
                    tipo_dados, erro, tipo_mapa, aviso, construtor, camada,
                    geojson, mapa_salvo >>

-----------------------------------------------------------------------------
(* Input sets *)

TiposDeMapa == {"tradicional", "calor", "circulos", "coropletico", "municipios"}

\* all sequences over S of length at most n
SeqsAte(S, n) == UNION {[1..k -> S] : k \in 0..n}

\* sequences of distinct elements of S of length 1..n
SeqsDistintas(S, n) ==
    {q \in SeqsAte(S, n) :
        Len(q) > 0 /\ \A i, j \in 1..Len(q) : i # j => q[i] # q[j]}

s_abc == <<"a","b","c">>

\* cell values tried in every column
Celulas ==
    { Nulo, Str(s_abc), Num(0), Num(20000),
      Num(-9001), Num(-9000), Num(9000), Num(9001),
      Num(-18001), Num(-18000), Num(18000), Num(18001) }

\* the sheet of the end-to-end scenario
PlanilhaSaoPaulo ==
    [colunas |-> << <<"l","a","t">>, <<"l","o","n">>, <<"n","o","m","e">>,
                    <<"p","o","p","u","l","a","c","a","o">> >>,
     base |-> << Num(-2355), Num(-4664), Str(s_sao_paulo), Num(1240000000) >>]

\* sheet layouts: the headers and one clean row
Planilhas ==
    { PlanilhaSaoPaulo,
      [colunas |-> << <<"L","a","t","i","t","u","d","e">>,
                      <<"L","o","n","g","i","t","u","d","e">>,
                      <<"D","e","s","c","r","i","c","a","o">> >>,
       base |-> << Num(-1579), Num(-4788), Str(s_abc) >>],
      [colunas |-> << <<"l","a","t","i","t","u","d","e">>,
                      <<"l","o","n","g","i","t","u","d","e">>,
                      <<"d","e","s","c","r","i","c","a","o">>,
                      <<"q","u","a","n","t","i","d","a","d","e">> >>,
       base |-> << Num(-2291), Num(-4317), Str(s_abc), Num(675000) >>],
      [colunas |-> << <<"l","a","t">>, <<"l","n","g">>, <<"v","a","l","o","r">> >>,
       base |-> << Num(-2355), Num(-4664), Num(500) >>],
      [colunas |-> << <<"l","o","n">>, <<"n","o","m","e">> >>,
       base |-> << Num(-4664), Str(s_abc) >>],
      [colunas |-> << <<"l","a","t">>, <<"n","o","m","e">> >>,
       base |-> << Num(-2355), Str(s_abc) >>],
      [colunas |-> << <<"e","s","t","a","d","o">>,
                      <<"q","u","a","n","t","i","d","a","d","e">> >>,
       base |-> << Str(s_sao_paulo), Num(10000) >>],
      [colunas |-> << <<"U","F">>, <<"n","o","m","e">> >>,
       base |-> << Str(s_abc), Str(s_abc) >>],
      [colunas |-> << <<"U"," ","F">>, <<"v","a","l","o","r">> >>,
       base |-> << Str(s_abc), Num(10000) >>],
      [colunas |-> << <<"c","o","d","i","g","o","_","i","b","g","e">>,
                      <<"v","a","l","o","r">> >>,
       base |-> << Num(355030800), Num(10000) >>],
      [colunas |-> << <<"C","o","d","_","I","B","G","E">>,
                      <<"P","o","p","u","l","a","c","a","o">> >>,
       base |-> << Num(355000), Num(10000) >>],
      [colunas |-> << <<"i","b","g","e">>, <<"n","o","m","e">> >>,
       base |-> << Num(355030800), Str(s_abc) >>] }

\* cell values tried in the rows of a whole request
CelulasPedido == { Nulo, Str(s_abc), Num(0), Num(20000) }

\* the clean row of a layout with one cell replaced by a value of cels
Defeituosas(p, cels) ==
    {[p.base EXCEPT ![j] = c] : j \in 1..Len(p.base), c \in cels} \ {p.base}

\* sheets tried for a layout: at most n rows, at most d of them not clean
Folhas(p, n, d, cels) ==
    UNION { UNION { { [i \in 1..k |-> IF i \in D THEN f[i] ELSE p.base] :
                        f \in [D -> Defeituosas(p, cels)] } :
                    D \in {X \in SUBSET (1..k) : Cardinality(X) <= d} } :
            k \in 0..n }

\* headers tried by the classification
Cabecalhos ==
    { <<"c","o","d","i","g","o","_","i","b","g","e">>,
      <<"C","o","d","_","I","B","G","E">>,
      <<"i","b","g","e">>,
      <<"C","o","d","i","g","o">>,
      <<"m","u","n","i","c","i","p","i","o">>,
      <<"E","s","t","a","d","o">>,
      <<"U","F">>,
      <<"U"," ","F">>,
      <<"s","i","g","l","a">>,
      <<"l","a","t">>,
      <<"l","o","n">>,
      <<"n","o","m","e">>,
      <<"v","a","l","o","r">>,
      <<"p","o","p","u","l","a","c","a","o">> }

-----------------------------------------------------------------------------
(* Specifications *)

\* state of upload_file right after file.save(filepath)
Salvo(cols, lins, tipo) ==
    /\ pc = "salvo"
    /\ colunas = cols
    /\ linhas = lins
    /\ map_type = tipo
    /\ ramo = ""
    /\ dados = << >>
    /\ tem_quantidade = FALSE
    /\ tipo_dados = ""
    /\ erro = SemErro
    /\ tipo_mapa = tipo
    /\ aviso = SemAviso
    /\ construtor = ""
    /\ camada = << >>
    /\ resposta = SemResposta
    /\ arquivo_temp = TRUE
    /\ geojson = SemGeoJSON
    /\ mapa_salvo = FALSE

\* a whole request: any layout, up to MaxLinhasPedido rows, any map type
\* of the form
Init ==
    \E p \in Planilhas :
        \E lins \in Folhas(p, MaxLinhasPedido, MaxDefeitos, CelulasPedido) :
            \E tipo \in TiposDeMapa : Salvo(p.colunas, lins, tipo)

Next ==
    \/ ProcessarExcel \/ ValidarTipoMapa \/ CriarMapa
    \/ SalvarMapa \/ Responder \/ Excecao

Spec == Init /\ [][Next]_vars

\* the cleaning pipelines alone: any layout, up to MaxLinhas rows of which
\* at most MaxDefeitos are not clean
InitPlanilha ==
    \E p \in Planilhas \ {PlanilhaSaoPaulo} :
        \E lins \in Folhas(p, MaxLinhas, MaxDefeitos, Celulas) :
            Salvo(p.colunas, lins, "tradicional")

NextPlanilha == ProcessarExcel

SpecPlanilha == InitPlanilha /\ [][NextPlanilha]_vars

\* classification and column resolution: any header list, no rows
InitColunas ==
    \E cols \in SeqsDistintas(Cabecalhos, MaxColunas) :
        Salvo(cols, << >>, "tradicional")

NextColunas == ProcessarExcel

SpecColunas == InitColunas /\ [][NextColunas]_vars

\* the map-type validation and what follows it, from any combination of
\* requested type, data type and quantity flag
AmostraDados(td, tq) ==
    IF td = "coroplético"
    THEN << [estado |-> Str(s_sao_paulo), quantidade |-> 10000,
             estado_normalizado |-> Str(Strip(Lower(s_sao_paulo)))] >>
    ELSE IF td = "municipios"
    THEN << [codigo_ibge |-> <<"3","5","5","0","3","0","8">>, valor |-> 10000] >>
    ELSE IF tq
    THEN << [latitude |-> -2355, longitude |-> -4664,
             descricao |-> Str(s_sao_paulo), quantidade |-> 10000] >>
    ELSE << [latitude |-> -2355, longitude |-> -4664,
             descricao |-> Str(s_sao_paulo)] >>

TiposDeDados == {"coordenadas", "coroplético", "municipios"}

InitModo ==
    \E tipo \in TiposDeMapa, td \in TiposDeDados, tq \in BOOLEAN :
        /\ pc = "processado"
        /\ colunas = << >>
        /\ linhas = << >>
        /\ map_type = tipo
        /\ ramo = td
        /\ dados = AmostraDados(td, tq)
        /\ tem_quantidade = tq
        /\ tipo_dados = td
        /\ erro = SemErro
        /\ tipo_mapa = tipo
        /\ aviso = SemAviso
        /\ construtor = ""
        /\ camada = << >>
        /\ resposta = SemResposta
        /\ arquivo_temp = TRUE
        /\ geojson = SemGeoJSON
        /\ mapa_salvo = FALSE

NextModo ==
    ValidarTipoMapa \/ CriarMapa \/ SalvarMapa \/ Responder \/ Excecao

SpecModo == InitModo /\ [][NextModo]_vars

-----------------------------------------------------------------------------
(* Properties *)

\* some header, lower-cased and stripped of '_' and ' ', equals an alias
TemAlias(cols, aliases) ==
    \E i \in 1..Len(cols) : Contem(aliases, Normalizar(cols[i]))

\* some header, lower-cased, equals an alias
TemAliasMinusculo(cols, aliases) ==
    \E i \in 1..Len(cols) : Contem(aliases, Lower(cols[i]))

\* C1: a sheet with a municipality-code alias among its normalized headers is
\* dispatched to the municipality pipeline whatever else it holds; a sheet
\* with no such alias and a state alias goes to the state pipeline; any other
\* sheet goes to the coordinate pipeline.
C1_PrecedenciaClassificacao ==
    pc # "salvo" =>
        /\ TemAlias(colunas, colunas_municipio) => ramo = "municipios"
        /\ ~TemAlias(colunas, colunas_municipio)
              /\ TemAlias(colunas, colunas_estado) => ramo = "coroplético"
        /\ ~TemAlias(colunas, colunas_municipio)
              /\ ~TemAlias(colunas, colunas_estado) => ramo = "coordenadas"

\* C1 witness: a sheet with a municipality alias, a state alias and a
\* latitude header has been classified as municipality data
C1_Witness ==
    /\ pc # "salvo"
    /\ ramo = "municipios"
    /\ TemAlias(colunas, colunas_estado)
    /\ \E i \in 1..Len(colunas) : colunas[i] = <<"l","a","t">>

\* C2: the effective map type and the warning are the function of (requested
\* type, data type, quantity flag) given by the three fallback rules; every
\* combination yields one pair.
C2_ResolucaoDoModo ==
    pc # "processado" =>
        LET sem_quantidade ==
                map_type \in {"calor", "circulos"} /\ ~tem_quantidade
            sem_regioes ==
                map_type = "coropletico"
                /\ tipo_dados \notin {"coroplético", "municipios"}
            sem_municipios ==
                map_type = "municipios" /\ tipo_dados # "municipios"
        IN /\ tipo_mapa \in TiposDeMapa
           /\ sem_quantidade \/ sem_regioes \/ sem_municipios
                 => tipo_mapa = "tradicional" /\ aviso # SemAviso
           /\ ~(sem_quantidade \/ sem_regioes \/ sem_municipios)
                 => tipo_mapa = map_type /\ aviso = SemAviso
           /\ map_type = "calor" /\ tipo_dados = "coordenadas" /\ ~tem_quantidade
                 => tipo_mapa = "tradicional" /\ aviso # SemAviso
           /\ map_type = "circulos" /\ tipo_dados = "coordenadas" /\ tem_quantidade
                 => tipo_mapa = "circulos" /\ aviso = SemAviso
           /\ map_type = "municipios" /\ tipo_dados = "coroplético"
                 => tipo_mapa = "tradicional" /\ aviso # SemAviso

\* C2 witness: 'municipios' requested on state data has been resolved to the
\* traditional map with a warning
C2_Witness ==
    /\ pc = "validado"
    /\ map_type = "municipios"
    /\ tipo_dados = "coroplético"
    /\ tipo_mapa = "tradicional"
    /\ aviso # SemAviso

\* the builders that build the map of a map type
ConstrutoresDoModo(tipo) ==
    IF tipo = "tradicional" THEN {"criar_mapa_tradicional"}
    ELSE IF tipo = "calor" THEN {"criar_mapa_calor"}
    ELSE IF tipo = "circulos" THEN {"criar_mapa_circulos"}
    ELSE IF tipo = "coropletico"
    THEN {"criar_mapa_coropletico", "criar_mapa_coropletico_municipios"}
    ELSE {"criar_mapa_coropletico_municipios"}

\* C3: the builder criar_mapa_coordenadas calls is the builder of the
\* effective map type.
C3_ConstrutorDoModoEfetivo ==
    construtor # "" => construtor \in ConstrutoresDoModo(tipo_mapa)

C4_Witness ==
    /\ pc = "fim"
    /\ map_type = "calor"
    /\ resposta.success
    /\ resposta.map_type = "tradicional"
    /\ resposta.warning # SemAviso

\* a row of a coordinate sheet with latitude, longitude and description
\* present and both coordinates in range
LinhaDentroDosLimites(r, iLat, iLon, iDesc) ==
    /\ EhNum(r[iLat]) /\ -9000 <= r[iLat].n /\ r[iLat].n <= 9000
    /\ EhNum(r[iLon]) /\ -18000 <= r[iLon].n /\ r[iLon].n <= 18000
    /\ ~EhNulo(r[iDesc])

\* C5: every record of an accepted coordinate sheet has latitude in
\* [-90, 90] and longitude in [-180, 180] and comes from an input row with
\* both in range and no missing latitude, longitude or description; the
\* other rows are not among the records.
C5_CoordenadasNosLimites ==
    pc = "processado" /\ tipo_dados = "coordenadas" =>
        LET iLat == col_encontrada(colunas, s_latitude)
            iLon == col_encontrada(colunas, s_longitude)
            iDesc == col_encontrada(colunas, s_descricao)
            boas == {i \in 1..Len(linhas) :
                        LinhaDentroDosLimites(linhas[i], iLat, iLon, iDesc)}
        IN /\ \A k \in 1..Len(dados) :
                 /\ -9000 <= dados[k].latitude /\ dados[k].latitude <= 9000
                 /\ -18000 <= dados[k].longitude /\ dados[k].longitude <= 18000
                 /\ ~EhNulo(dados[k].descricao)
                 /\ \E i \in boas :
                       /\ linhas[i][iLat].n = dados[k].latitude
                       /\ linhas[i][iLon].n = dados[k].longitude
                       /\ linhas[i][iDesc] = dados[k].descricao
           /\ Len(dados) <= Cardinality(boas)

\* C5 witness: a coordinate sheet was accepted although one of its rows has
\* latitude 90.01, and that row is not among the records
C5_Witness ==
    /\ pc = "processado"
    /\ tipo_dados = "coordenadas"
    /\ Len(dados) < Len(linhas)
    /\ \E i \in 1..Len(linhas) :
          linhas[i][col_encontrada(colunas, s_latitude)] = Num(9001)

\* the required columns of the pipeline sheet cols is dispatched to that no
\* header matches, by the logical name the error message gives them
ColunasEmFalta(cols) ==
    LET falta(nome, aliases) ==
            IF TemAliasMinusculo(cols, aliases) THEN {} ELSE {nome}
    IN IF TemAlias(cols, colunas_municipio)
       THEN falta(s_valor, colunas_valor)
       ELSE IF TemAlias(cols, colunas_estado)
       THEN falta(s_estado, colunas_estado)
            \cup falta(s_quantidade, colunas_opcionais_estados)
       ELSE falta(s_latitude, << s_latitude >> \o alt_latitude)
            \cup falta(s_longitude, << s_longitude >> \o alt_longitude)
            \cup falta(s_descricao, << s_descricao >> \o alt_descricao)

\* the positions of the columns the cleaning of the sheet's pipeline reads
ColunasDaLimpeza(cols) ==
    IF TemAlias(cols, colunas_municipio)
    THEN [ramo |-> "municipios", a |-> col_codigo(cols), b |-> col_valor(cols),
          c |-> 0, q |-> 0]
    ELSE IF TemAlias(cols, colunas_estado)
    THEN [ramo |-> "coroplético", a |-> col_estado(cols),
          b |-> col_quantidade_estados(cols), c |-> 0, q |-> 0]
    ELSE [ramo |-> "coordenadas", a |-> col_encontrada(cols, s_latitude),
          b |-> col_encontrada(cols, s_longitude),
          c |-> col_encontrada(cols, s_descricao), q |-> col_quantidade(cols)]

\* row r is kept by the cleaning that reads the columns ix
LinhaSobreviveEm(ix, r) ==
    IF ix.ramo # "coordenadas"
    THEN /\ ~EhNulo(r[ix.a])
         /\ EhNum(to_numeric(r[ix.b]))
         /\ to_numeric(r[ix.b]).n >= 0
    ELSE /\ LinhaDentroDosLimites(r, ix.a, ix.b, ix.c)
         /\ ix.q # 0 => /\ EhNum(to_numeric(r[ix.q]))
                        /\ to_numeric(r[ix.q]).n > 0

\* a row that the cleaning of its pipeline keeps, for a sheet whose required
\* columns are all found
LinhaSobrevive(cols, r) == LinhaSobreviveEm(ColunasDaLimpeza(cols), r)

Sobreviventes(cols, lins) ==
    LET ix == ColunasDaLimpeza(cols)
    IN {i \in 1..Len(lins) : LinhaSobreviveEm(ix, lins[i])}

\* C6: a pipeline never returns an empty record list; when no input row
\* survives the cleaning it raises and returns nothing, and a coordinate
\* sheet whose latitudes are all 200 ends in the empty-data error.
C6_VazioFalha ==
    pc # "salvo" =>
        /\ pc = "processado" => Len(dados) > 0
        /\ ColunasEmFalta(colunas) = {} /\ Sobreviventes(colunas, linhas) = {}
              => pc = "excecao" /\ dados = << >> /\ erro # SemErro
        /\ ( /\ ramo = "coordenadas"
             /\ ColunasEmFalta(colunas) = {}
             /\ Len(linhas) > 0
             /\ \A i \in 1..Len(linhas) :
                   linhas[i][col_encontrada(colunas, s_latitude)] = Num(20000) )
              => pc = "excecao" /\ erro = ErroVazio

\* C6 witness: a coordinate sheet with rows, all of latitude 200, has ended in
\* the empty-data error
C6_Witness ==
    /\ pc = "excecao"
    /\ ramo = "coordenadas"
    /\ erro = ErroVazio
    /\ Len(linhas) > 0
    /\ ColunasEmFalta(colunas) = {}
    /\ \A i \in 1..Len(linhas) :
          linhas[i][col_encontrada(colunas, s_latitude)] = Num(20000)

\* C7: when a required column of the pipeline has no matching header the
\* pipeline raises, whatever the rows, an error naming one of the columns
\* that are missing, with the headers of the sheet for coordinates; no error
\* names a column that is present, and the optional quantity column of the
\* coordinate pipeline is never named.
C7_ColunaEmFalta ==
    pc # "salvo" =>
        /\ ColunasEmFalta(colunas) # {}
              => /\ pc = "excecao"
                 /\ dados = << >>
                 /\ erro.motivo = "coluna"
                 /\ erro.coluna \in ColunasEmFalta(colunas)
                 /\ ramo = "coordenadas" => erro.disponiveis = colunas
        /\ erro.motivo = "coluna" => erro.coluna \in ColunasEmFalta(colunas)
        /\ ( /\ ramo = "coordenadas"
             /\ ColunasEmFalta(colunas) = {}
             /\ ~TemAliasMinusculo(colunas, colunas_opcionais)
             /\ Sobreviventes(colunas, linhas) # {}
             /\ \A i \in 1..Len(linhas) :
                   /\ ~EhStr(linhas[i][col_encontrada(colunas, s_latitude)])
                   /\ ~EhStr(linhas[i][col_encontrada(colunas, s_longitude)]) )
              => pc = "processado"

\* C7 witness: a coordinate sheet with rows and no description header has
\* ended in the error that names 'descricao' and lists the headers
C7_Witness ==
    /\ pc = "excecao"
    /\ Len(linhas) > 0
    /\ erro = ErroColuna(s_descricao, colunas)

\* C8: coordinate records with a quantity column have quantity > 0, state
\* records have quantidade >= 0 and municipality records have valor >= 0; the
\* records are as many as the rows that survive, so a state or municipality
\* row of weight 0 is kept and a coordinate row of quantity 0 is dropped.
C8_LimiteDoPeso ==
    pc = "processado" =>
        /\ tipo_dados = "coordenadas" /\ tem_quantidade
              => \A k \in 1..Len(dados) : dados[k].quantidade > 0
        /\ tipo_dados = "coroplético"
              => \A k \in 1..Len(dados) : dados[k].quantidade >= 0
        /\ tipo_dados = "municipios"
              => \A k \in 1..Len(dados) : dados[k].valor >= 0
        /\ Len(dados) = Cardinality(Sobreviventes(colunas, linhas))

\* C8 witness: a state record of quantity 0 has been returned
C8_Witness ==
    /\ pc = "processado"
    /\ tipo_dados = "coroplético"
    /\ \E k \in 1..Len(dados) : dados[k].quantidade = 0

\* C9: for an accepted coordinate sheet the flag is true exactly when a
\* quantity header was found and some record carries a quantity, and then
\* every record carries one.
C9_TemQuantidade ==
    pc = "processado" /\ tipo_dados = "coordenadas" =>
        /\ tem_quantidade
              <=> /\ TemAliasMinusculo(colunas, colunas_opcionais)
                  /\ \E k \in 1..Len(dados) : "quantidade" \in DOMAIN dados[k]
        /\ tem_quantidade
              => \A k \in 1..Len(dados) : "quantidade" \in DOMAIN dados[k]

\* C9 witness: a coordinate sheet with a quantity column was accepted with
\* the flag set after a row was dropped
C9_Witness ==
    /\ pc = "processado"
    /\ tipo_dados = "coordenadas"
    /\ tem_quantidade
    /\ Len(dados) < Len(linhas)

\* the sheet [lat, lon, nome, populacao] with the row
\* (-23.55, -46.64, "São Paulo", 12400000), requested as a heat map
PedidoSaoPaulo ==
    /\ colunas = << <<"l","a","t">>, <<"l","o","n">>, <<"n","o","m","e">>,
                    <<"p","o","p","u","l","a","c","a","o">> >>
    /\ linhas = << << Num(-2355), Num(-4664), Str(s_sao_paulo),
                      Num(1240000000) >> >>
    /\ map_type = "calor"

\* C10 as stated: the request, its map file written, ends with has_quantity
\* true, the heat type, no warning, and one heat point of weight 12400000.
C10_CalorComPopulacao ==
    PedidoSaoPaulo /\ pc = "fim" /\ erro # ErroSalvar =>
        /\ resposta.success
        /\ resposta.data_type = "coordenadas"
        /\ resposta.has_quantity
        /\ resposta.points_count = 1
        /\ resposta.map_type = "calor"
        /\ resposta.warning = SemAviso
        /\ construtor = "criar_mapa_calor"
        /\ camada = << << -2355, -4664, 1240000000 >> >>

\* C10 amended: 'populacao' is no quantity alias of the coordinate pipeline,
\* so the request, its map file written, ends with has_quantity false, one
\* point record, the
\* traditional type with the quantity warning, and one marker at
\* (-23.55, -46.64) placed by the traditional builder.
C10_TradicionalComAviso ==
    PedidoSaoPaulo /\ pc = "fim" /\ erro # ErroSalvar =>
        /\ resposta.success
        /\ resposta.data_type = "coordenadas"
        /\ ~resposta.has_quantity
        /\ resposta.points_count = 1
        /\ dados = << [latitude |-> -2355, longitude |-> -4664,
                       descricao |-> Str(s_sao_paulo)] >>
        /\ resposta.map_type = "tradicional"
        /\ resposta.warning = "quantidade"
        /\ construtor = "criar_mapa_tradicional"
        /\ camada = << << -2355, -4664 >> >>

\* C10 witness: the request has been answered
C10_Witness == PedidoSaoPaulo /\ pc = "fim" /\ resposta.success

-----------------------------------------------------------------------------
(* The municipality pipeline on sheets with varied codes *)

s_3550308 == <<"3","5","5","0","3","0","8">>

s_3550 == <<"3","5","5","0">>

\* cell values tried in the sheets of the municipality pipeline
CelulasCodigo ==
    Celulas \cup { Str(s_3550308), Str(s_3550), Num(355000), Num(355030800),
                   Num(1234567800) }

PlanilhasMunicipios ==
    {p \in Planilhas : TemAlias(p.colunas, colunas_municipio)}

InitMunicipios ==
    \E p \in PlanilhasMunicipios :
        \E lins \in Folhas(p, MaxLinhas, MaxDefeitos, CelulasCodigo) :
            Salvo(p.colunas, lins, "tradicional")

NextMunicipios == ProcessarExcel

SpecMunicipios == InitMunicipios /\ [][NextMunicipios]_vars

\* the rows the cleaning keeps, in sheet order
LinhasFinais(cols, lins) ==
    LET ix == ColunasDaLimpeza(cols)
    IN SelectSeq(lins, LAMBDA r : LinhaSobreviveEm(ix, r))

\* the text form of the code of the k-th kept row of a municipality sheet
TextoDoCodigo(k) ==
    astype_str(LinhasFinais(colunas, linhas)[k][col_codigo(colunas)],
               Dtype(linhas, col_codigo(colunas)))

\* cod is s with '0' characters put in front of it, behind a leading sign
Preenchido(s, cod) ==
    \E n \in 0..Len(cod) :
        LET zeros == [i \in 1..n |-> "0"]
        IN \/ cod = zeros \o s
           \/ /\ Len(s) > 0
              /\ s[1] \in {"+", "-"}
              /\ cod = << s[1] >> \o zeros \o Tail(s)

\* C11: in every municipality record the code is the text form of the cell,
\* filled with '0' in front (behind a leading sign) to exactly 7 characters
\* when the text is shorter than 7, and the text itself otherwise; the
\* characters of the text are all kept, in order; the text "3550" gives
\* "0003550" and the text "3550308" gives "3550308".
C11_CodigoPreenchido ==
    pc = "processado" /\ tipo_dados = "municipios" =>
        /\ Len(dados) = Len(LinhasFinais(colunas, linhas))
        /\ \A k \in 1..Len(dados) :
              LET s == TextoDoCodigo(k)
                  cod == dados[k].codigo_ibge
              IN /\ Len(s) < 7 => Len(cod) = 7 /\ Preenchido(s, cod)
                 /\ Len(s) >= 7 => cod = s
                 /\ s = s_3550 => cod = <<"0","0","0","3","5","5","0">>
                 /\ s = s_3550308 => cod = s_3550308

\* C11 witness: the code 3550 of a whole-number column was returned as
\* "0003550"
C11_Witness ==
    /\ pc = "processado"
    /\ tipo_dados = "municipios"
    /\ \E i \in 1..Len(linhas) : linhas[i][col_codigo(colunas)] = Num(355000)
    /\ \E k \in 1..Len(dados) :
          dados[k].codigo_ibge = <<"0","0","0","3","5","5","0">>

\* C12: the code of every municipality record is a string of exactly 7
\* digits.
C12_CodigoSeteDigitos ==
    pc = "processado" /\ tipo_dados = "municipios" =>
        \A k \in 1..Len(dados) :
            /\ Len(dados[k].codigo_ibge) = 7
            /\ \A i \in 1..Len(dados[k].codigo_ibge) :
                  EhDigito(dados[k].codigo_ibge[i])

-----------------------------------------------------------------------------
(* Requests with state sheets of varied names *)

MaxLinhasEstados == 2

s_sao_paulo_minusculo == <<"s","a","o"," ","p","a","u","l","o">>

s_SAO_PAULO_espacos == <<" ","S","A","O"," ","P","A","U","L","O"," ">>

s_sao_paulo_acentuado == <<"s","ã","o"," ","p","a","u","l","o">>

\* the three spellings of the state of São Paulo
NomesSaoPaulo == {s_sao_paulo, s_sao_paulo_minusculo, s_SAO_PAULO_espacos}

NomesDeEstado ==
    NomesSaoPaulo \cup {s_sao_paulo_acentuado, s_SP, s_goias, s_rio_de_janeiro}

\* rows of a state sheet: a name and a quantity
LinhasDeEstado ==
    {<< Str(nome), Num(q) >> : nome \in NomesDeEstado, q \in {10000, 20000}}

InitEstados ==
    \E lins \in SeqsAte(LinhasDeEstado, MaxLinhasEstados) :
        \E tipo \in TiposDeMapa :
            Salvo(<< s_estado, s_quantidade >>, lins, tipo)

NextEstados ==
    \/ ProcessarExcel \/ ValidarTipoMapa \/ CriarMapa
    \/ SalvarMapa \/ Responder \/ Excecao

SpecEstados == InitEstados /\ [][NextEstados]_vars

\* the state builder has built the map of the request
MapaDeEstadosCriado ==
    pc \in {"criado", "mapa_salvo", "fim"} /\ construtor = "criar_mapa_coropletico"

\* C13 as stated: the three spellings of São Paulo yield one and the same
\* normalized key and resolve to "SP", and normalizing a key again returns
\* the key.
C13_MesmaChave ==
    MapaDeEstadosCriado =>
        \A j, k \in 1..Len(dados) :
            /\ estado_normalizado(dados[k].estado_normalizado)
                   = dados[k].estado_normalizado
            /\ dados[j].estado.s \in NomesSaoPaulo
               /\ dados[k].estado.s \in NomesSaoPaulo
                  => /\ dados[j].estado_normalizado
                            = dados[k].estado_normalizado
                     /\ sigla(dados[k].estado_normalizado.s) = s_SP

\* C13 amended: the normalization keeps the accents, so "São Paulo" yields
\* the key "são paulo" while "sao paulo" and " SAO PAULO " yield "sao paulo";
\* both keys resolve to "SP", which is then a key of the data of the map, and
\* normalizing a key again returns the key.
C13_MesmaSigla ==
    MapaDeEstadosCriado =>
        \A k \in 1..Len(dados) :
            /\ estado_normalizado(dados[k].estado_normalizado)
                   = dados[k].estado_normalizado
            /\ dados[k].estado.s \in NomesSaoPaulo
                  => /\ dados[k].estado_normalizado
                            = IF dados[k].estado.s = s_sao_paulo
                              THEN Str(s_sao_paulo_acentuado)
                              ELSE Str(s_sao_paulo_minusculo)
                     /\ sigla(dados[k].estado_normalizado.s) = s_SP
                     /\ s_SP \in DOMAIN dados_dict(dados)

\* C13 witness: a map was built from a sheet with the rows "São Paulo" and
\* " SAO PAULO ", whose keys differ
C13_Witness ==
    /\ MapaDeEstadosCriado
    /\ Len(dados) = 2
    /\ dados[1].estado = Str(s_sao_paulo)
    /\ dados[2].estado = Str(s_SAO_PAULO_espacos)
    /\ dados[1].estado_normalizado # dados[2].estado_normalizado

-----------------------------------------------------------------------------
(* Requests with coordinate sheets of varied quantities *)

MaxPontos == 3

\* quantities tried: 5, 10, 20, 30 and 1, 34, 67, 101
QuantidadesDosPontos == {500, 1000, 2000, 3000, 100, 3400, 6700, 10100}

LinhasDePontos ==
    {<< Num(-2355), Num(-4664), Str(s_abc), Num(q) >> :
        q \in QuantidadesDosPontos}

InitCirculos ==
    \E lins \in SeqsAte(LinhasDePontos, MaxPontos) :
        \E tipo \in TiposDeMapa :
            Salvo(<< s_latitude, s_longitude, s_descricao, s_quantidade >>,
                  lins, tipo)

NextCirculos ==
    \/ ProcessarExcel \/ ValidarTipoMapa \/ CriarMapa
    \/ SalvarMapa \/ Responder \/ Excecao

SpecCirculos == InitCirculos /\ [][NextCirculos]_vars

\* criar_mapa_circulos has built the map of the request
CirculosCriados ==
    pc \in {"criado", "mapa_salvo", "fim"} /\ construtor = "criar_mapa_circulos"

QuantidadesDosDados == {dados[k].quantidade : k \in 1..Len(dados)}

\* C14: the radius of the circle of a record of quantity q is
\* 10 + 90 * (q - min) / (max - min), min and max over all records, and 30
\* for every record when max = min; no radius has a zero divisor, every
\* radius lies in [10, 100], the record of least quantity gets 10 and the
\* record of greatest quantity 100; [10, 20, 30] give [10, 55, 100] and
\* [5, 5, 5] give 30 three times.
C14_RaioNormalizado ==
    CirculosCriados =>
        LET mn == Min(QuantidadesDosDados)
            mx == Max(QuantidadesDosDados)
        IN /\ Len(camada) = Len(dados)
           /\ \A k \in 1..Len(dados) :
                 LET q == dados[k].quantidade
                     r == camada[k].raio
                 IN /\ r.den > 0
                    /\ 10 * r.den <= r.num /\ r.num <= 100 * r.den
                    /\ mx = mn => r.num = 30 * r.den
                    /\ mx # mn => /\ r.den = mx - mn
                                  /\ r.num = 10 * (mx - mn) + 90 * (q - mn)
                                  /\ q = mn => r.num = 10 * r.den
                                  /\ q = mx => r.num = 100 * r.den
           /\ [k \in 1..Len(dados) |-> dados[k].quantidade]
                  = << 1000, 2000, 3000 >>
                 => /\ camada[1].raio.num = 10 * camada[1].raio.den
                    /\ camada[2].raio.num = 55 * camada[2].raio.den
                    /\ camada[3].raio.num = 100 * camada[3].raio.den
           /\ [k \in 1..Len(dados) |-> dados[k].quantidade]
                  = << 500, 500, 500 >>
                 => \A k \in 1..3 : camada[k].raio = [num |-> 30, den |-> 1]

\* C14 witness: circles were drawn for the quantities [10, 20, 30], the
\* second with radius 55
C14_Witness ==
    /\ CirculosCriados
    /\ [k \in 1..Len(dados) |-> dados[k].quantidade] = << 1000, 2000, 3000 >>
    /\ camada[2].raio.num = 55 * camada[2].raio.den

\* C19: with t = (q - min) / (max - min), the circle of a record is green
\* when t < 0.33, orange when 0.33 <= t < 0.66 and red when t >= 0.66, and
\* blue for every record when max = min; when max differs from min the
\* record of least quantity is green and the record of greatest quantity red.
C19_CorPorQuantidade ==
    CirculosCriados =>
        LET mn == Min(QuantidadesDosDados)
            mx == Max(QuantidadesDosDados)
        IN \A k \in 1..Len(dados) :
              LET q == dados[k].quantidade
                  cor == camada[k].cor
              IN /\ mx = mn => cor = "blue"
                 /\ mx # mn =>
                       /\ cor = "green"
                             <=> 100 * (q - mn) < 33 * (mx - mn)
                       /\ cor = "orange"
                             <=> /\ 33 * (mx - mn) <= 100 * (q - mn)
                                 /\ 100 * (q - mn) < 66 * (mx - mn)
                       /\ cor = "red"
                             <=> 66 * (mx - mn) <= 100 * (q - mn)
                       /\ q = mn => cor = "green"
                       /\ q = mx => cor = "red"

\* C19 witness: circles were drawn for the quantities [1, 34, 101]; the
\* second, with t = 0.33, is orange
C19_Witness ==
    /\ CirculosCriados
    /\ [k \in 1..Len(dados) |-> dados[k].quantidade] = << 100, 3400, 10100 >>
    /\ camada[2].cor = "orange"

\* the boundary source was asked and did not answer with status 200
FonteIndisponivel == geojson.pedido /\ geojson.status # 200

\* C15: when the boundary source is unreachable or answers with a status
\* other than 200, the state builder and the municipality builder raise and
\* no map is built; no map is built from boundaries other than the ones the
\* source answered with.
C15_SemFronteirasFalha ==
    /\ FonteIndisponivel
       /\ construtor \in {"criar_mapa_coropletico",
                          "criar_mapa_coropletico_municipios"}
          => pc = "excecao" \/ (pc = "fim" /\ ~resposta.success)
    /\ pc \in {"criado", "mapa_salvo", "fim"} /\ geojson.pedido /\ erro = SemErro
          => geojson.status = 200

\* the rows of data whose state resolves to the code sg
LinhasDaSigla(sg) ==
    {j \in 1..Len(dados) : sigla(dados[j].estado_normalizado.s) = sg}

\* C18: the state builder gives every feature of the boundary collection
\* exactly one hover label, made of the feature's name, its code and the
\* quantity of the data row that maps to that code, or the text "Sem dados"
\* when no row maps to it; no feature is left without a label.
C18_RotuloPorFeature ==
    MapaDeEstadosCriado =>
        /\ Len(camada) = Len(geojson.features)
        /\ \A k \in 1..Len(geojson.features) :
              LET f == geojson.features[k]
                  sg == IF "sigla" \in DOMAIN f THEN f.sigla ELSE << >>
              IN /\ camada[k].sigla = sg
                 /\ camada[k].nome = IF "name" \in DOMAIN f THEN f.name ELSE sg
                 /\ LinhasDaSigla(sg) = {}
                       => camada[k].valor = Str(s_sem_dados)
                 /\ LinhasDaSigla(sg) # {}
                       => camada[k].valor
                              = Num(dados[Max(LinhasDaSigla(sg))].quantidade)

\* C18 witness: a map was built on a collection of several features of which
\* one has a row of data and another has none and is labelled "Sem dados"
C18_Witness ==
    /\ MapaDeEstadosCriado
    /\ Len(camada) > 1
    /\ \E k \in 1..Len(camada) : camada[k].valor = Str(s_sem_dados)
    /\ \E k \in 1..Len(camada) : EhNum(camada[k].valor)

RECURSIVE match_desde(_, _, _)
match_desde(headers, aliases, k) ==
    IF k > Len(aliases) THEN 0
    ELSE LET idx == {i \in 1..Len(headers) :
                        Normalizar(headers[i]) = aliases[k]}
         IN IF idx = {} THEN match_desde(headers, aliases, k + 1)
            ELSE Min(idx)

\* the ColumnMatcher contract: the position of the first header whose
\* lower-cased form without spaces and underscores equals an alias, the
\* aliases tried in their listed order and the headers in column order; 0
\* when no header matches
match(headers, aliases) == match_desde(headers, aliases, 1)

\* C16: every column the pipeline of the sheet resolves is the header the
\* ColumnMatcher contract gives for the aliases of that column, and a column
\* is reported missing only when the contract finds no header for it.
C16_ContratoColumnMatcher ==
    pc # "salvo" =>
        /\ ramo = "municipios"
              => /\ col_codigo(colunas) = match(colunas, colunas_municipio)
                 /\ col_valor(colunas) = match(colunas, colunas_valor)
        /\ ramo = "coroplético"
              => /\ col_estado(colunas) = match(colunas, colunas_estado)
                 /\ col_quantidade_estados(colunas)
                        = match(colunas, colunas_opcionais_estados)
        /\ ramo = "coordenadas"
              => /\ col_encontrada(colunas, s_latitude)
                        = match(colunas, << s_latitude >> \o alt_latitude)
                 /\ col_encontrada(colunas, s_longitude)
                        = match(colunas, << s_longitude >> \o alt_longitude)
                 /\ col_encontrada(colunas, s_descricao)
                        = match(colunas, << s_descricao >> \o alt_descricao)
                 /\ col_quantidade(colunas)
                        = match(colunas, colunas_opcionais)
        /\ erro = ErroColuna(s_estado, << >>)
              => match(colunas, colunas_estado) = 0

\* C17: the records a pipeline returns hold no two records equal in every
\* field.
C17_SemDuplicados ==
    pc = "processado" =>
        \A j, k \in 1..Len(dados) : j # k => dados[j] # dados[k]

\* C20: the heat builder and the circle builder are called only for
\* coordinate data with the quantity flag set; every record they get carries
\* a quantity, and the layer they build has one point per record, at the
\* latitude and longitude of the record and with its quantity as weight, so
\* the default weight is not used.
C20_CalorSoComQuantidade ==
    construtor \in {"criar_mapa_calor", "criar_mapa_circulos"} =>
        /\ tem_quantidade
        /\ tipo_dados = "coordenadas"
        /\ \A k \in 1..Len(dados) : "quantidade" \in DOMAIN dados[k]
        /\ pc \in {"criado", "mapa_salvo", "fim"} =>
              /\ Len(camada) = Len(dados)
              /\ \A k \in 1..Len(dados) :
                    IF construtor = "criar_mapa_calor"
                    THEN camada[k] = << dados[k].latitude, dados[k].longitude,
                                        dados[k].quantidade >>
                    ELSE /\ camada[k].latitude = dados[k].latitude
                         /\ camada[k].longitude = dados[k].longitude
                         /\ camada[k].quantidade = dados[k].quantidade

\* C20 witness: a heat map of two records was built, each point weighted by
\* the quantity of its record, neither weight being the default
C20_Witness ==
    /\ pc = "fim"
    /\ construtor = "criar_mapa_calor"
    /\ Len(camada) = 2
    /\ \A k \in 1..2 : camada[k][3] = dados[k].quantidade /\ camada[k][3] # 100

\* C21: when processar_excel takes the municipality branch,
\* processar_excel_municipios finds the IBGE code column, and when it takes
\* the state branch, processar_excel_estados finds the state column; neither
\* pipeline reports as missing the identifier column the classification saw.
C21_ClassificacaoResolveColuna ==
    pc # "salvo" =>
        /\ (ramo = "municipios"
               => /\ col_codigo(colunas) # 0
                  /\ erro # ErroColuna(s_codigo_ibge, << >>))
        /\ (ramo = "coroplético"
               => /\ col_estado(colunas) # 0
                  /\ erro # ErroColuna(s_estado, << >>))

\* C22: whenever upload_file has returned, with the success response or with
\* the error response, the uploaded temporary file no longer exists; and a
\* step that removes the file is either the except clause handling an error
\* or comes after mapa.save has written the map, so that a success response
\* always has a saved map behind it.
C22_ArquivoTemporarioRemovido ==
    /\ [](pc = "fim" => ~arquivo_temp)
    /\ [](resposta.success => mapa_salvo)
    /\ [][(arquivo_temp /\ ~arquivo_temp')
             => (mapa_salvo \/ (pc = "excecao" /\ erro # SemErro))]_vars

\* a request whose map was built but could not be saved has returned the
\* error response and its temporary file is gone
C22_Witness ==
    /\ pc = "fim"
    /\ erro = ErroSalvar
    /\ resposta.status = 500
    /\ ~mapa_salvo
    /\ ~arquivo_temp

====
